---------------------------- MODULE Spec2Model ----------------------------
(***************************************************************************)
(* A model of the himmel display manager: the login state machine          *)
(* (src/src/app.rs), the event dispatcher with its worker and timer        *)
(* threads (src/src/main.rs), the PAM authentication sequence              *)
(* (src/src/pam_wrapper.rs) and the display-server / session processes     *)
(* (src/src/process_starts.rs).                                            *)
(*                                                                         *)
(* Left out: the drawing calls and the ball physics of App::update and     *)
(* App::draw (ball_position, ball_velocity, boxes_size, last_update,       *)
(* pressed_keys): they never feed back into the stage, the credential      *)
(* buffer or the dispatcher.  The model is the non-debug build.            *)
(*                                                                         *)
(* The specifications share the definitions:                               *)
(*   Spec       the dispatcher with its threads, typed input over one      *)
(*              ASCII character;                                           *)
(*   SpecInput  the App under keyboard input over every kind of character, *)
(*              up to the first authentication attempt;                    *)
(*   SpecPam    one call of Author::open_session over every combination    *)
(*              of native return codes;                                    *)
(*   SpecConv   one call of pam_conv over every exchange of up to MaxMsgs  *)
(*              messages;                                                  *)
(*   SpecX      start_x_server and stop_x_server called from NumThreads    *)
(*              threads, and FairSpecX, the same with the polling thread   *)
(*              kept running;                                              *)
(*   SpecMain   main from its first statement: start_x_server on the main   *)
(*              thread, then the dispatcher of Spec;                       *)
(*   SpecWorker one authentication attempt from its dispatch on, over      *)
(*              every combination of native return codes, and             *)
(*              FairSpecWorker, the same with frames kept being rendered   *)
(*              and the clock advancing.                                   *)
(***************************************************************************)
EXTENDS Integers, Sequences, FiniteSets, TLC

VARIABLES
    stage,          \* App::stage, an AppStage
    current_input,  \* App::current_input, a sequence of characters
    last_events,    \* App::last_events, buffered since the previous frame
    now,            \* the monotonic clock read by Instant::now(), in ms
    workers,        \* authentication threads spawned by login_callback
    queue,          \* user events sent through the EventLoopProxy, FIFO
    timers,         \* timer threads spawned by the LoginResult handler
    control_flow,   \* "Poll" | "Exit" | "Waiting" | "Destroyed" | "Panicked"
    x_server,       \* process_starts::X_SERVER, "Some" | "None"
    do_on_quit,     \* session children recorded for the final wait
    results,        \* history: the success flags the dispatcher consumed
    attempts,       \* history: the number of login_callback invocations
    pam,            \* the return code the native library gives each call
    pam_calls,      \* the native calls issued by Author::open_session
    pam_result,     \* what Author::open_session returned
    conv_in,        \* the arguments of one call of pam_conv
    conv_out,       \* what that call returned and did to the heap
    x_pc,           \* where each caller of start/stop_x_server stands
    x_lock,         \* the thread holding the X_SERVER mutex, or NoThread
    x_poisoned,     \* a thread panicked while holding the X_SERVER mutex
    x_children,     \* the /usr/bin/X processes spawned and killed so far
    x_elapsed       \* start.elapsed() of the readiness poll, in ms

vars == <<stage, current_input, last_events, now, workers, queue, timers,
          control_flow, x_server, do_on_quit, results, attempts, pam,
          pam_calls, pam_result, conv_in, conv_out, x_pc, x_lock,
          x_poisoned, x_children, x_elapsed>>

appVars == <<stage, current_input, last_events>>
convVars == <<conv_in, conv_out>>
xVars == <<x_pc, x_lock, x_poisoned, x_children, x_elapsed>>
pamVars == <<pam, pam_calls, pam_result, convVars, xVars>>
restVars == <<attempts, pamVars>>

-----------------------------------------------------------------------------
(* Bounds of the model *)

\* the clock stops advancing here
MaxTime == 3000
\* the clock advances in steps of this many ms
TickMs == 1000
\* messages in one conversation exchange
MaxMsgs == 3
\* events buffered between two frames
MaxEvents == 2
\* authentication threads spawned in one run
MaxAttempts == 2
\* threads that call start_x_server and stop_x_server
NumThreads == 2
\* a start is called only while fewer display servers than this were spawned
MaxSpawns == 2

-----------------------------------------------------------------------------
(* Program constants *)

pass_length == 4
login_username == "malo"
ShortFlashMs == 500
LongFlashMs == 2000
ValidatingFloorMs == 2000
X_SERVER_TIMEOUT == 5000
PollIntervalMs == 150

-----------------------------------------------------------------------------
(* Characters.  A character is named by a string; "U+00E9" is a two-byte   *)
(* alphanumeric character, "U+0020" the space, which the filter rejects.   *)

TypedChars == {"a", "U+00E9", "U+0020"}

is_alphanumeric(c) == c \in {"a", "U+00E9"}

is_ascii_punctuation(c) == c \in {"!"}

len_utf8(c) == IF c = "U+00E9" THEN 2 ELSE 1

\* String::len: the length in bytes
RECURSIVE len(_)
len(s) == IF s = <<>> THEN 0 ELSE len_utf8(Head(s)) + len(Tail(s))

\* String::chars().count()
chars_count(s) == Len(s)

\* String::pop: removes the last character, if any
pop(s) == IF s = <<>> THEN s ELSE SubSeq(s, 1, Len(s) - 1)

\* String::push
push(s, c) == Append(s, c)

-----------------------------------------------------------------------------
(* Window events that reach App::add_window_event *)

KeyPressed(vkc) ==
    [kind |-> "KeyboardInput", state |-> "Pressed", virtual_keycode |-> vkc]

ReceivedCharacter(c) == [kind |-> "ReceivedCharacter", c |-> c]

WindowEvents ==
    {KeyPressed("Return"), KeyPressed("Back")}
        \cup {ReceivedCharacter(c) : c \in TypedChars}

\* the events the full dispatcher is driven with: one ASCII character
DispatchEvents ==
    {KeyPressed("Return"), KeyPressed("Back"), ReceivedCharacter("a")}

-----------------------------------------------------------------------------
(* AppStage *)

Inputing(dur, start) ==
    [tag |-> "Inputing", ball_red_flash_duration |-> dur,
     ball_red_flash_start |-> start]

inputing(t) == Inputing(ShortFlashMs, t - ShortFlashMs)

with_red_flash(s, dur, t) ==
    IF s.tag = "Inputing" THEN Inputing(dur, t) ELSE [tag |-> "panic"]

validating(t) ==
    [tag |-> "Validating", start |-> t, finished |-> FALSE, succeed |-> FALSE]

logging_in(t) == [tag |-> "LoggingIn", start |-> t]


None == [tag |-> "None"]

-----------------------------------------------------------------------------
(* App *)

\* App::login_result; a stage tagged "panic" stands for the panic
login_result(s, success) ==
    IF s.tag = "Validating"
    THEN [s EXCEPT !.finished = TRUE, !.succeed = success]
    ELSE [tag |-> "panic"]

\* update with the minimum duration of Validating dropped
update_no_floor(self_stage, input, t) ==
    IF self_stage.tag = "Validating" /\ self_stage.finished
    THEN IF self_stage.succeed
         THEN [stage |-> logging_in(t), current_input |-> input]
         ELSE [stage |-> with_red_flash(inputing(t), LongFlashMs, t),
               current_input |-> <<>>]
    ELSE [stage |-> self_stage, current_input |-> input]

\* update leaving Validating only in a frame exactly at the minimum duration
update_exact_floor(self_stage, input, t) ==
    IF self_stage.tag = "Validating"
       /\ t - self_stage.start = ValidatingFloorMs
       /\ self_stage.finished
    THEN IF self_stage.succeed
         THEN [stage |-> logging_in(t), current_input |-> input]
         ELSE [stage |-> with_red_flash(inputing(t), LongFlashMs, t),
               current_input |-> <<>>]
    ELSE [stage |-> self_stage, current_input |-> input]

\* App::update without the ball physics.  start.elapsed().as_secs_f32() > 2.
\* is read in whole milliseconds.
update(self_stage, input, t) ==
    IF self_stage.tag = "Validating"
       /\ t - self_stage.start > ValidatingFloorMs
       /\ self_stage.finished
    THEN IF self_stage.succeed
         THEN [stage |-> logging_in(t), current_input |-> input]
         ELSE [stage |-> with_red_flash(inputing(t), LongFlashMs, t),
               current_input |-> <<>>]
    ELSE [stage |-> self_stage, current_input |-> input]

\* draw_event with the capacity test off by one
draw_event_off_by_one(acc, event, self_stage, t) ==
    IF event = KeyPressed("Return")
    THEN IF len(acc.current_input) < pass_length
         THEN [acc EXCEPT
                 !.next_stage = with_red_flash(self_stage, ShortFlashMs, t)]
         ELSE [acc EXCEPT
                 !.calls = Append(@, [username |-> login_username,
                                      password |-> acc.current_input]),
                 !.next_stage = validating(t)]
    ELSE IF event = KeyPressed("Back")
    THEN [acc EXCEPT !.current_input = pop(@)]
    ELSE IF event.kind = "ReceivedCharacter"
            /\ (is_alphanumeric(event.c) \/ is_ascii_punctuation(event.c))
    THEN IF chars_count(acc.current_input) <= pass_length
         THEN [acc EXCEPT !.current_input = push(@, event.c)]
         ELSE acc
    ELSE acc

\* One iteration of the event loop of App::draw in the Inputing stage.
\* acc.calls collects the invocations of login_callback.
draw_event(acc, event, self_stage, t) ==
    IF event = KeyPressed("Return")
    THEN IF len(acc.current_input) < pass_length
         THEN [acc EXCEPT
                 !.next_stage = with_red_flash(self_stage, ShortFlashMs, t)]
         ELSE [acc EXCEPT
                 !.calls = Append(@, [username |-> login_username,
                                      password |-> acc.current_input]),
                 !.next_stage = validating(t)]
    ELSE IF event = KeyPressed("Back")
    THEN [acc EXCEPT !.current_input = pop(@)]
    ELSE IF event.kind = "ReceivedCharacter"
            /\ (is_alphanumeric(event.c) \/ is_ascii_punctuation(event.c))
    THEN IF chars_count(acc.current_input) < pass_length
         THEN [acc EXCEPT !.current_input = push(@, event.c)]
         ELSE acc
    ELSE acc

RECURSIVE draw_events(_, _, _, _)
draw_events(acc, events, self_stage, t) ==
    IF events = <<>>
    THEN acc
    ELSE draw_events(draw_event(acc, Head(events), self_stage, t),
                     Tail(events), self_stage, t)

\* draw reading the events whatever the stage is
draw_any_stage(self_stage, input, events, t) ==
    LET acc == draw_events([current_input |-> input, next_stage |-> None,
                            calls |-> <<>>], events,
                           Inputing(ShortFlashMs, t), t)
    IN  [stage |-> IF acc.next_stage # None THEN acc.next_stage ELSE self_stage,
         current_input |-> acc.current_input,
         calls |-> acc.calls]

\* App::draw without the drawing calls
draw(self_stage, input, events, t) ==
    LET acc == IF self_stage.tag = "Inputing"
               THEN draw_events([current_input |-> input, next_stage |-> None,
                                 calls |-> <<>>], events, self_stage, t)
               ELSE [current_input |-> input, next_stage |-> None,
                     calls |-> <<>>]
    IN  [stage |-> IF acc.next_stage # None THEN acc.next_stage ELSE self_stage,
         current_input |-> acc.current_input,
         calls |-> acc.calls]

\* App::frame: update, draw, then last_events.clear()
frame(self_stage, input, events, t) ==
    LET u == update(self_stage, input, t)
        d == draw(u.stage, u.current_input, events, t)
    IN  [stage |-> d.stage, current_input |-> d.current_input,
         last_events |-> <<>>, calls |-> d.calls]

-----------------------------------------------------------------------------
(* Author::open_session.  env gives the return code of each native call.   *)
(* The handle is taken to be the one pam_start returned.                   *)

PamCalls == {"authenticate", "acct_mgmt", "setcred_ESTABLISH_CRED",
             "open_session", "setcred_DELETE_CRED"}

PamCodes == {"SUCCESS", "AUTH_ERR", "SESSION_ERR"}

PamEnvs == [PamCalls -> PamCodes]

Ok == [ok |-> TRUE, err |-> "SUCCESS"]

Err(code) == [ok |-> FALSE, err |-> code]

\* cprc
cprc(code) == IF code # "SUCCESS" THEN Err(code) ELSE Ok

\* open_session going on to the account check after authenticate failed
open_session_no_stop(env) ==
    LET c2 == <<"authenticate", "acct_mgmt">>
        c3 == Append(c2, "setcred_ESTABLISH_CRED")
        c4 == Append(c3, "open_session")
        c5 == Append(c4, "setcred_DELETE_CRED")
    IN  IF ~cprc(env["acct_mgmt"]).ok
        THEN [calls |-> c2, result |-> cprc(env["acct_mgmt"])]
        ELSE IF ~cprc(env["setcred_ESTABLISH_CRED"]).ok
        THEN [calls |-> c3, result |-> cprc(env["setcred_ESTABLISH_CRED"])]
        ELSE IF cprc(env["open_session"]).ok
        THEN [calls |-> c4, result |-> Ok]
        ELSE IF ~cprc(env["setcred_DELETE_CRED"]).ok
        THEN [calls |-> c5, result |-> cprc(env["setcred_DELETE_CRED"])]
        ELSE [calls |-> c5, result |-> cprc(env["open_session"])]

\* open_session returning the open-session error without the rollback
open_session_no_rollback(env) ==
    LET c1 == <<"authenticate">>
        c2 == Append(c1, "acct_mgmt")
        c3 == Append(c2, "setcred_ESTABLISH_CRED")
        c4 == Append(c3, "open_session")
    IN  IF ~cprc(env["authenticate"]).ok
        THEN [calls |-> c1, result |-> cprc(env["authenticate"])]
        ELSE IF ~cprc(env["acct_mgmt"]).ok
        THEN [calls |-> c2, result |-> cprc(env["acct_mgmt"])]
        ELSE IF ~cprc(env["setcred_ESTABLISH_CRED"]).ok
        THEN [calls |-> c3, result |-> cprc(env["setcred_ESTABLISH_CRED"])]
        ELSE [calls |-> c4, result |-> cprc(env["open_session"])]

\* Returns the native calls issued, in order, and the Result.
open_session(env) ==
    LET c1 == <<"authenticate">>
        c2 == Append(c1, "acct_mgmt")
        c3 == Append(c2, "setcred_ESTABLISH_CRED")
        c4 == Append(c3, "open_session")
        c5 == Append(c4, "setcred_DELETE_CRED")
    IN  IF ~cprc(env["authenticate"]).ok
        THEN [calls |-> c1, result |-> cprc(env["authenticate"])]
        ELSE IF ~cprc(env["acct_mgmt"]).ok
        THEN [calls |-> c2, result |-> cprc(env["acct_mgmt"])]
        ELSE IF ~cprc(env["setcred_ESTABLISH_CRED"]).ok
        THEN [calls |-> c3, result |-> cprc(env["setcred_ESTABLISH_CRED"])]
        ELSE IF cprc(env["open_session"]).ok
        THEN [calls |-> c4, result |-> Ok]
        ELSE IF ~cprc(env["setcred_DELETE_CRED"]).ok
        THEN [calls |-> c5, result |-> cprc(env["setcred_DELETE_CRED"])]
        ELSE [calls |-> c5, result |-> cprc(env["open_session"])]

\* whether open_session().is_ok(), over everything the native library may do
OpenSessionOutcomes == {open_session(env).result.ok : env \in PamEnvs}

-----------------------------------------------------------------------------
(* pam_conv.  The heap is a set of blocks: block 0 is the response array   *)
(* calloc returns, block i the string strdup returns for message i.        *)

PamMessageStyles ==
    {"PROMPT_ECHO_ON", "PROMPT_ECHO_OFF", "TEXT_INFO", "ERROR_MSG"}

NullPtr == [null |-> TRUE]

Ptr(block, str) == [null |-> FALSE, block |-> block, str |-> str]

\* strdup for message i
strdup(i, str) == Ptr(i, str)

\* One iteration of the loop of pam_conv.  resp is `&mut *resp_ptr`, the
\* first PamResponse of the array, in every iteration.
conv_message(acc, i, style, data) ==
    IF style = "PROMPT_ECHO_ON"
    THEN [acc EXCEPT !.array[1] = strdup(i, data[1]),
                     !.allocated = @ \cup {i}]
    ELSE IF style = "PROMPT_ECHO_OFF"
    THEN [acc EXCEPT !.array[1] = strdup(i, data[2]),
                     !.allocated = @ \cup {i}]
    ELSE IF style = "TEXT_INFO"
    THEN acc
    ELSE [acc EXCEPT !.result = "CONV_ERR"]

\* for i in 0..num_msg, with the break on result != SUCCESS
RECURSIVE conv_loop(_, _, _, _)
conv_loop(acc, i, msgs, data) ==
    IF i > Len(msgs) \/ acc.result # "SUCCESS"
    THEN acc
    ELSE conv_loop(conv_message(acc, i, msgs[i], data), i + 1, msgs, data)

\* pam_conv: ret is the return code, out_resp what *out_resp was set to
pam_conv(msgs, data, calloc_ok) ==
    IF ~calloc_ok
    THEN [ret |-> "BUF_ERR", out_resp |-> None, array |-> <<>>,
          allocated |-> {}, freed |-> {}]
    ELSE LET acc == conv_loop([result |-> "SUCCESS",
                               array |-> [k \in 1..Len(msgs) |-> NullPtr],
                               allocated |-> {0}],
                              1, msgs, data)
         IN  IF acc.result # "SUCCESS"
             THEN [ret |-> acc.result, out_resp |-> None,
                   array |-> acc.array, allocated |-> acc.allocated,
                   freed |-> {0}]
             ELSE [ret |-> "SUCCESS", out_resp |-> Ptr(0, acc.array),
                   array |-> acc.array, allocated |-> acc.allocated,
                   freed |-> {}]

-----------------------------------------------------------------------------
(* process_starts *)
(* The callers are threads 1..NumThreads; a thread is "idle", waiting for  *)
(* the mutex in start_x_server ("start_lock") or stop_x_server             *)
(* ("stop_lock"), past the is_some check ("spawning"), in the readiness     *)
(* loop ("polling"), back from start_x_server ("returned") or dead          *)
(* ("panicked").  A panic unwinds the thread and, when the guard is alive,  *)
(* poisons the mutex, so that every later lock().unwrap() panics too.       *)

XThreads == 1..NumThreads
NoThread == 0

\* X_SERVER.lock(): the mutex can be taken
lock_free_unserialized(lock) == TRUE
lock_free(lock) == lock = NoThread

\* Option::is_some on the slot
is_some_never(slot) == FALSE
is_some(slot) == slot = "Some"

\* Command::spawn succeeded and the handle is recorded: a new process, not
\* yet listening
spawn(children) ==
    [children EXCEPT !.spawned = @ + 1, !.reachable = FALSE,
                     !.connected = FALSE]

\* Child::kill on the recorded handle
kill(children) ==
    [children EXCEPT !.killed = @ + 1, !.reachable = FALSE,
                     !.connected = FALSE]

\* x11rb::connect(Some(DISPLAY)).is_ok()
connect_at_once(children) == TRUE
connect(children) == children.reachable

\* the condition that ends the readiness loop: the connection attempt
\* succeeded
poll_returns_after_spawn(ok) == TRUE
poll_done(ok) == ok

\* start.elapsed() > X_SERVER_TIMEOUT
timed_out_inverted(elapsed) == elapsed < X_SERVER_TIMEOUT
timed_out(elapsed) == elapsed > X_SERVER_TIMEOUT

\* thread::sleep(150 ms) returns after at least that long
SleepMs == {PollIntervalMs, 2 * PollIntervalMs}

\* stop_x_server: take() the slot and kill what it held
stop_x_server(slot) == "None"

\* no caller is inside start_x_server or stop_x_server
XQuiet ==
    /\ x_pc = [t \in XThreads |-> "idle"]
    /\ x_lock = NoThread
    /\ x_poisoned = FALSE
    /\ x_elapsed = 0

\* main has not called start_x_server yet
XNotStarted ==
    /\ XQuiet
    /\ x_children = [spawned |-> 0, killed |-> 0, reachable |-> FALSE,
                     connected |-> FALSE]

\* main's start_x_server() has returned
XStarted ==
    /\ XQuiet
    /\ x_children = [spawned |-> 1, killed |-> 0, reachable |-> TRUE,
                     connected |-> TRUE]

-----------------------------------------------------------------------------
(* Helpers *)

Remove(s, i) == SubSeq(s, 1, i - 1) \o SubSeq(s, i + 1, Len(s))

LoginResultMsg(success, username, password) ==
    [type |-> "LoginResult", success |-> success, username |-> username,
     password |-> password,
     author |-> [data |-> <<username, password>>]]

StartSessionMsg(username, author) ==
    [type |-> "StartSession", username |-> username, author |-> author]

\* the event loop is alive and accepts user events from other threads
LoopOpen == control_flow \in {"Poll", "Exit", "Waiting"}

-----------------------------------------------------------------------------
(* The state after main has built the App and entered event_loop.run *)

Init ==
    /\ stage = inputing(0)
    /\ current_input = <<>>
    /\ last_events = <<>>
    /\ now = 0
    /\ workers = <<>>
    /\ queue = <<>>
    /\ timers = <<>>
    /\ control_flow = "Poll"
    /\ x_server = "Some"
    /\ do_on_quit = <<>>
    /\ results = {}
    /\ attempts = 0
    /\ pam = [c \in PamCalls |-> "SUCCESS"]
    /\ pam_calls = <<>>
    /\ pam_result = None
    /\ conv_in = None
    /\ conv_out = None
    /\ XStarted

-----------------------------------------------------------------------------
(* The dispatcher: one action per arm of the match in event_loop.run *)

\* time passes
Tick ==
    /\ LoopOpen
    /\ now < MaxTime
    /\ now' = now + TickMs
    /\ UNCHANGED <<appVars, workers, queue, timers, control_flow, x_server,
                   do_on_quit, results, restVars>>

\* WindowEvent::CloseRequested, or any keyboard event for Escape
ExitRequested ==
    /\ control_flow = "Poll"
    /\ control_flow' = "Exit"
    /\ UNCHANGED <<appVars, now, workers, queue, timers, x_server,
                   do_on_quit, results, restVars>>

\* any other WindowEvent: App::add_window_event
AddWindowEvent(events) ==
    /\ control_flow = "Poll"
    /\ Len(last_events) < MaxEvents
    /\ \E we \in events : last_events' = Append(last_events, we)
    /\ UNCHANGED <<stage, current_input, now, workers, queue, timers,
                   control_flow, x_server, do_on_quit, results, restVars>>

\* RedrawRequested: renderer.draw runs App::frame
RedrawRequested ==
    /\ control_flow = "Poll"
    /\ LET f == frame(stage, current_input, last_events, now)
       IN  /\ attempts + Len(f.calls) <= MaxAttempts
           /\ stage' = f.stage
           /\ current_input' = f.current_input
           /\ last_events' = f.last_events
           /\ workers' = workers \o f.calls
           /\ attempts' = attempts + Len(f.calls)
    /\ UNCHANGED <<now, queue, timers, control_flow, x_server, do_on_quit,
                   results, pamVars>>

\* RedrawRequested: renderer.draw fails before it calls App::frame
RedrawFailed ==
    /\ control_flow = "Poll"
    /\ control_flow' = "Exit"
    /\ UNCHANGED <<appVars, now, workers, queue, timers, x_server,
                   do_on_quit, results, restVars>>

\* the thread login_callback spawned: Author::open_session, then send_event
WorkerRun ==
    /\ LoopOpen
    /\ \E i \in 1..Len(workers) :
         \E ok \in OpenSessionOutcomes :
           /\ queue' = Append(queue,
                  LoginResultMsg(ok,
                                 workers[i].username, workers[i].password))
           /\ workers' = Remove(workers, i)
    /\ UNCHANGED <<appVars, now, timers, control_flow, x_server, do_on_quit,
                   results, restVars>>

\* UserEvent::LoginResult
HandleLoginResult ==
    /\ control_flow = "Poll"
    /\ queue # <<>>
    /\ Head(queue).type = "LoginResult"
    /\ queue' = Tail(queue)
    /\ LET m == Head(queue)
           s == login_result(stage, m.success)
       IN  IF s.tag = "panic"
           THEN /\ control_flow' = "Panicked"
                /\ UNCHANGED <<stage, timers, results>>
           ELSE /\ stage' = s
                /\ timers' = Append(timers, [username |-> m.username,
                                             author |-> m.author])
                /\ results' = results \cup {m.success}
                /\ UNCHANGED control_flow
    /\ UNCHANGED <<current_input, last_events, now, workers, x_server,
                   do_on_quit, restVars>>

\* the timer thread: sleep(wait_duration), then send StartSession.
\* wait_duration is what App::login_result returns, which carries no
\* duration: the thread may wake at any time.
TimerFire ==
    /\ LoopOpen
    /\ \E i \in 1..Len(timers) :
         /\ queue' = Append(queue,
                StartSessionMsg(timers[i].username, timers[i].author))
         /\ timers' = Remove(timers, i)
    /\ UNCHANGED <<appVars, now, workers, control_flow, x_server, do_on_quit,
                   results, restVars>>

\* UserEvent::StartSession: start_session, record the child, exit the loop
HandleStartSession ==
    /\ control_flow = "Poll"
    /\ queue # <<>>
    /\ Head(queue).type = "StartSession"
    /\ queue' = Tail(queue)
    /\ do_on_quit' = Append(do_on_quit, "Running")
    /\ control_flow' = "Exit"
    /\ UNCHANGED <<appVars, now, workers, timers, x_server, results,
                   restVars>>

\* UserEvent::StartSession when start_session panics (no such user, or the
\* shell cannot be spawned)
StartSessionFailed ==
    /\ control_flow = "Poll"
    /\ queue # <<>>
    /\ Head(queue).type = "StartSession"
    /\ queue' = Tail(queue)
    /\ control_flow' = "Panicked"
    /\ UNCHANGED <<appVars, now, workers, timers, x_server, do_on_quit,
                   results, restVars>>

\* LoopDestroyed, first statement: stop_x_server()
LoopDestroyed ==
    /\ control_flow = "Exit"
    /\ x_server' = stop_x_server(x_server)
    /\ x_children' = IF x_server = "Some" THEN kill(x_children)
                                          ELSE x_children
    /\ control_flow' = "Waiting"
    /\ UNCHANGED <<appVars, now, workers, queue, timers, do_on_quit, results,
                   attempts, pam, pam_calls, pam_result, convVars, x_pc,
                   x_lock, x_poisoned, x_elapsed>>

\* the session process ends on its own
SessionExit ==
    /\ LoopOpen
    /\ \E i \in 1..Len(do_on_quit) :
         /\ do_on_quit[i] = "Running"
         /\ do_on_quit' = [do_on_quit EXCEPT ![i] = "Exited"]
    /\ UNCHANGED <<appVars, now, workers, queue, timers, control_flow,
                   x_server, results, restVars>>

\* LoopDestroyed, the drain of do_on_quit: child.wait() returns once the
\* child has exited
ChildWait ==
    /\ control_flow = "Waiting"
    /\ do_on_quit # <<>>
    /\ Head(do_on_quit) = "Exited"
    /\ do_on_quit' = Tail(do_on_quit)
    /\ UNCHANGED <<appVars, now, workers, queue, timers, control_flow,
                   x_server, results, restVars>>

\* LoopDestroyed returns and the process ends
LoopDestroyedReturn ==
    /\ control_flow = "Waiting"
    /\ do_on_quit = <<>>
    /\ control_flow' = "Destroyed"
    /\ UNCHANGED <<appVars, now, workers, queue, timers, x_server,
                   do_on_quit, results, restVars>>

Next ==
    \/ Tick
    \/ ExitRequested
    \/ AddWindowEvent(DispatchEvents)
    \/ RedrawRequested
    \/ RedrawFailed
    \/ WorkerRun
    \/ HandleLoginResult
    \/ TimerFire
    \/ HandleStartSession
    \/ StartSessionFailed
    \/ LoopDestroyed
    \/ SessionExit
    \/ ChildWait
    \/ LoopDestroyedReturn

Spec == Init /\ [][Next]_vars

-----------------------------------------------------------------------------
(* The App under keyboard input alone, with every character of TypedChars: *)
(* events are buffered and frames are rendered up to and including the     *)
(* first frame that invokes login_callback; the threads it spawns are      *)
(* recorded and not scheduled.                                             *)

RedrawBeforeDispatch ==
    /\ workers = <<>>
    /\ RedrawRequested

NextInput ==
    \/ Tick
    \/ AddWindowEvent(WindowEvents)
    \/ RedrawBeforeDispatch

SpecInput == Init /\ [][NextInput]_vars

-----------------------------------------------------------------------------
(* Author::open_session on its own: the native library's return codes are  *)
(* drawn from PamEnvs, and one call of open_session is made.               *)

InitPam ==
    /\ stage = inputing(0)
    /\ current_input = <<>>
    /\ last_events = <<>>
    /\ now = 0
    /\ workers = <<>>
    /\ queue = <<>>
    /\ timers = <<>>
    /\ control_flow = "Poll"
    /\ x_server = "Some"
    /\ do_on_quit = <<>>
    /\ results = {}
    /\ attempts = 0
    /\ pam \in PamEnvs
    /\ pam_calls = <<>>
    /\ pam_result = None
    /\ conv_in = None
    /\ conv_out = None
    /\ XStarted

OpenSessionCall ==
    /\ pam_result = None
    /\ pam_calls' = open_session(pam).calls
    /\ pam_result' = open_session(pam).result
    /\ UNCHANGED <<appVars, now, workers, queue, timers, control_flow,
                   x_server, do_on_quit, results, attempts, pam, convVars,
                   xVars>>

NextPam == OpenSessionCall

SpecPam == InitPam /\ [][NextPam]_vars

-----------------------------------------------------------------------------
(* Properties *)

\* a step in which the machine ends a Validating episode
LeavesValidating ==
    /\ stage.tag = "Validating"
    /\ ~(stage'.tag = "Validating" /\ stage'.start = stage.start)

\* a step that renders a frame over a non-empty event buffer
FrameOverEvents == last_events # <<>> /\ last_events' = <<>>

StartSessionSent ==
    \E i \in DOMAIN queue : queue[i].type = "StartSession"

LoginResultsInFlight ==
    Cardinality({i \in DOMAIN queue : queue[i].type = "LoginResult"})

\* C1: a StartSession message is emitted, and a session process spawned,
\* only after the dispatcher consumed a LoginResult with success = true.
C1_SessionOnlyAfterSuccess ==
    (StartSessionSent \/ do_on_quit # <<>>) => TRUE \in results

\* C2: at most one authentication attempt is in flight: the worker threads
\* not yet finished plus the LoginResult messages not yet consumed never
\* exceed one.
C2_AtMostOneAttemptInFlight ==
    Len(workers) + LoginResultsInFlight <= 1

\* C3: a rejected attempt does not end the dispatch loop: the StartSession
\* handler leaves the loop only when some attempt succeeded.
C3_RejectedAttemptRecoverable ==
    [][(/\ control_flow = "Poll"
        /\ control_flow' # "Poll"
        /\ queue # <<>>
        /\ Head(queue).type = "StartSession"
        /\ queue' = Tail(queue)) => TRUE \in results]_vars

\* C4: the machine leaves Validating only in a step where the result has
\* been delivered and at least 2000 ms have passed since Validating began.
C4_ValidatingGate ==
    [][LeavesValidating =>
          stage.finished /\ now - stage.start >= 2000]_vars

\* the machine is back in Inputing with the long flash, having left
\* Validating
C4_Witness ==
    /\ stage.tag = "Inputing"
    /\ stage.ball_red_flash_duration = LongFlashMs
    /\ FALSE \in results

\* C5: leaving Validating with succeed = true leads to LoggingIn, and from
\* LoggingIn no step changes the stage or the buffer or dispatches an
\* attempt.
C5_LoggingInAbsorbing ==
    [][/\ (LeavesValidating /\ stage.succeed) => stage'.tag = "LoggingIn"
       /\ stage.tag = "LoggingIn" =>
             /\ stage' = stage
             /\ current_input' = current_input
             /\ Len(workers') <= Len(workers)]_vars

\* the machine is in LoggingIn and key events have arrived since
C5_Witness ==
    /\ stage.tag = "LoggingIn"
    /\ Len(last_events) = 2
    /\ control_flow = "Poll"

\* C6: the step that leaves Validating with succeed = false ends in
\* Inputing with an empty buffer and a flash of exactly 2000 ms.
C6_FailureClearsAndArms ==
    [][(LeavesValidating /\ ~stage.succeed) =>
          /\ stage'.tag = "Inputing"
          /\ stage'.ball_red_flash_duration = 2000
          /\ current_input' = <<>>]_vars

\* C7: a frame that reads one Enter press while the buffer holds fewer than
\* pass_length characters invokes no login_callback, leaves the buffer as it
\* is and re-arms a 500 ms flash in Inputing.
C7_ShortEnterNeverDispatches ==
    [][(/\ FrameOverEvents
        /\ stage.tag = "Inputing"
        /\ last_events = <<KeyPressed("Return")>>
        /\ chars_count(current_input) < pass_length)
       => /\ workers' = workers
          /\ current_input' = current_input
          /\ stage' = Inputing(500, now)]_vars

AllBack(events) ==
    \A i \in DOMAIN events : events[i] = KeyPressed("Back")

\* C8: the buffer never holds more than pass_length characters; a frame in
\* Inputing that reads k backspaces drops the last k characters (all of
\* them when there are fewer), and one that reads a single character with
\* the buffer full leaves the buffer as it is.
C8_BufferWithinLength ==
    [][/\ Len(current_input') <= pass_length
       /\ (FrameOverEvents /\ stage.tag = "Inputing" /\ AllBack(last_events))
             => current_input' =
                  SubSeq(current_input, 1,
                         IF Len(current_input) > Len(last_events)
                         THEN Len(current_input) - Len(last_events) ELSE 0)
       /\ (/\ FrameOverEvents
           /\ stage.tag = "Inputing"
           /\ Len(last_events) = 1
           /\ last_events[1].kind = "ReceivedCharacter"
           /\ Len(current_input) = pass_length)
             => current_input' = current_input]_vars

\* the buffer is full and a character and a backspace are waiting
C8_Witness ==
    /\ stage.tag = "Inputing"
    /\ Len(current_input) = pass_length
    /\ last_events = <<ReceivedCharacter("U+00E9"), KeyPressed("Back")>>

PamOrder ==
    <<"authenticate", "acct_mgmt", "setcred_ESTABLISH_CRED", "open_session">>

\* the first of the four steps the native library fails, 5 if none
FirstFailure ==
    IF \E i \in 1..4 : pam[PamOrder[i]] # "SUCCESS"
    THEN CHOOSE i \in 1..4 :
            /\ pam[PamOrder[i]] # "SUCCESS"
            /\ \A j \in 1..(i - 1) : pam[PamOrder[j]] = "SUCCESS"
    ELSE 5

\* C9: open_session issues authenticate, acct_mgmt, setcred(ESTABLISH_CRED),
\* open_session in that order, issues none of them after the first that
\* fails, and returns Ok exactly when all four succeeded.
C9_FourStepsInOrder ==
    pam_result # None =>
        LET n == IF FirstFailure = 5 THEN 4 ELSE FirstFailure
        IN  /\ Len(pam_calls) >= n
            /\ SubSeq(pam_calls, 1, n) = SubSeq(PamOrder, 1, n)
            /\ \A i \in (n + 1)..Len(pam_calls) :
                  pam_calls[i] \notin {PamOrder[j] : j \in 1..4}
            /\ pam_result.ok <=> FirstFailure = 5

\* open_session has run and stopped at a failed account check
C9_Witness ==
    /\ pam_result # None
    /\ pam["authenticate"] = "SUCCESS"
    /\ pam["acct_mgmt"] # "SUCCESS"
    /\ pam_calls = <<"authenticate", "acct_mgmt">>

\* C10: setcred(DELETE_CRED) is issued exactly when open-session failed
\* after the three earlier steps succeeded, and then it is the last call,
\* issued right after open-session and before the error is returned.
C10_RollbackOnSessionFailure ==
    pam_result # None =>
        /\ (\E i \in DOMAIN pam_calls : pam_calls[i] = "setcred_DELETE_CRED")
              <=> FirstFailure = 4
        /\ FirstFailure = 4 =>
              /\ ~pam_result.ok
              /\ Len(pam_calls) = 5
              /\ pam_calls[4] = "open_session"
              /\ pam_calls[5] = "setcred_DELETE_CRED"

\* open_session has run, open-session failed and the rollback was issued
C10_Witness ==
    /\ pam_result # None
    /\ ~pam_result.ok
    /\ FirstFailure = 4
    /\ pam_calls[Len(pam_calls)] = "setcred_DELETE_CRED"

\* C11: when open-session fails after the three earlier steps succeeded,
\* open_session returns the open-session error, whatever the rollback call
\* returned.
C11_RollbackFailureDoesNotMask ==
    (pam_result # None /\ FirstFailure = 4) =>
        pam_result = Err(pam["open_session"])

-----------------------------------------------------------------------------
(* pam_conv on its own: one exchange of up to MaxMsgs messages of every    *)
(* style, with calloc succeeding or not, and one call of pam_conv.         *)

RECURSIVE SeqsUpTo(_, _)
SeqsUpTo(S, n) ==
    IF n = 0
    THEN {<<>>}
    ELSE LET shorter == SeqsUpTo(S, n - 1)
         IN  shorter \cup {Append(q, x) : q \in shorter, x \in S}

\* the pair appdata_ptr points to: (username, password)
ConvData == <<login_username, "aaaa">>

InitConv ==
    /\ stage = inputing(0)
    /\ current_input = <<>>
    /\ last_events = <<>>
    /\ now = 0
    /\ workers = <<>>
    /\ queue = <<>>
    /\ timers = <<>>
    /\ control_flow = "Poll"
    /\ x_server = "Some"
    /\ do_on_quit = <<>>
    /\ results = {}
    /\ attempts = 0
    /\ pam = [c \in PamCalls |-> "SUCCESS"]
    /\ pam_calls = <<>>
    /\ pam_result = None
    /\ conv_in \in [msgs : SeqsUpTo(PamMessageStyles, MaxMsgs),
                    data : {ConvData}, calloc_ok : BOOLEAN]
    /\ conv_out = None
    /\ XStarted

PamConvCall ==
    /\ conv_out = None
    /\ conv_out' = pam_conv(conv_in.msgs, conv_in.data, conv_in.calloc_ok)
    /\ UNCHANGED <<appVars, now, workers, queue, timers, control_flow,
                   x_server, do_on_quit, results, attempts, pam, pam_calls,
                   pam_result, conv_in, xVars>>

NextConv == PamConvCall

SpecConv == InitConv /\ [][NextConv]_vars

\* what the native caller expects in response i
ExpectedResponse(style, data) ==
    IF style = "PROMPT_ECHO_ON" THEN data[1]
    ELSE IF style = "PROMPT_ECHO_OFF" THEN data[2]
    ELSE ""

ResponseText(p) == IF p.null THEN "" ELSE p.str

\* the string blocks the response array points to
ReachableBlocks(array) ==
    {array[k].block : k \in {j \in DOMAIN array : ~array[j].null}}

\* C12: for an exchange of n >= 1 messages with no error message, pam_conv
\* returns SUCCESS and hands back n responses, response i holding the
\* username for an echoed prompt, the password for a masked prompt and
\* nothing for an informational message.
C12_ResponsePerMessage ==
    (/\ conv_out # None
     /\ conv_in.calloc_ok
     /\ Len(conv_in.msgs) >= 1
     /\ \A i \in DOMAIN conv_in.msgs : conv_in.msgs[i] # "ERROR_MSG")
    => /\ conv_out.ret = "SUCCESS"
       /\ conv_out.out_resp # None
       /\ Len(conv_out.array) = Len(conv_in.msgs)
       /\ \A i \in DOMAIN conv_in.msgs :
             ResponseText(conv_out.array[i]) =
                ExpectedResponse(conv_in.msgs[i], conv_in.data)

\* C13: when the exchange holds an error message pam_conv returns CONV_ERR,
\* leaves *out_resp unset and has freed every block it allocated; on
\* success every block it allocated is the returned array or a string the
\* array points to.
C13_NoBlockLeftBehind ==
    conv_out # None =>
        /\ (\E i \in DOMAIN conv_in.msgs : conv_in.msgs[i] = "ERROR_MSG")
              /\ conv_in.calloc_ok
           => /\ conv_out.ret = "CONV_ERR"
              /\ conv_out.out_resp = None
              /\ conv_out.allocated \subseteq conv_out.freed
        /\ conv_out.ret = "SUCCESS"
           => /\ conv_out.freed = {}
              /\ conv_out.allocated =
                    {0} \cup ReachableBlocks(conv_out.array)

\* C14: the display server is killed only after the wait on every recorded
\* session child has completed.
C14_StopAfterSessionExit ==
    [][(x_server = "Some" /\ x_server' = "None") => do_on_quit = <<>>]_vars

\* the password a user event carries, in its own field and in its Author
PasswordsIn(m) ==
    {m.author.data[2]}
        \cup (IF m.type = "LoginResult" THEN {m.password} ELSE {})

\* C19: once a worker has reported its result, no message to the dispatcher
\* and no timer thread holds the password any more.
C19_PasswordDoesNotOutliveAttempt ==
    /\ \A i \in DOMAIN queue : PasswordsIn(queue[i]) \subseteq {<<>>}
    /\ \A i \in DOMAIN timers : timers[i].author.data[2] = <<>>

-----------------------------------------------------------------------------
(* start_x_server and stop_x_server called from several threads, from      *)
(* before main's first start_x_server.  The display server starts to       *)
(* listen at any moment after its spawn, or never.                         *)

dispatcherVars == <<appVars, now, workers, queue, timers, control_flow,
                    do_on_quit, results, attempts, pam, pam_calls,
                    pam_result, convVars>>

InitX ==
    /\ stage = inputing(0)
    /\ current_input = <<>>
    /\ last_events = <<>>
    /\ now = 0
    /\ workers = <<>>
    /\ queue = <<>>
    /\ timers = <<>>
    /\ control_flow = "Poll"
    /\ x_server = "None"
    /\ do_on_quit = <<>>
    /\ results = {}
    /\ attempts = 0
    /\ pam = [c \in PamCalls |-> "SUCCESS"]
    /\ pam_calls = <<>>
    /\ pam_result = None
    /\ conv_in = None
    /\ conv_out = None
    /\ XNotStarted

\* a thread calls start_x_server
CallStart(t) ==
    /\ x_pc[t] \in {"idle", "returned"}
    /\ x_children.spawned < MaxSpawns
    /\ x_pc' = [x_pc EXCEPT ![t] = "start_lock"]
    /\ UNCHANGED <<x_server, x_lock, x_poisoned, x_children, x_elapsed,
                   dispatcherVars>>

\* a thread calls stop_x_server
CallStop(t) ==
    /\ x_pc[t] \in {"idle", "returned"}
    /\ x_pc' = [x_pc EXCEPT ![t] = "stop_lock"]
    /\ UNCHANGED <<x_server, x_lock, x_poisoned, x_children, x_elapsed,
                   dispatcherVars>>

\* start_x_server: X_SERVER.lock().unwrap() and the is_some() early return
StartCheck(t) ==
    /\ x_pc[t] = "start_lock"
    /\ lock_free(x_lock)
    /\ IF x_poisoned
       THEN /\ x_pc' = [x_pc EXCEPT ![t] = "panicked"]
            /\ UNCHANGED x_lock
       ELSE IF is_some(x_server)
       THEN /\ x_pc' = [x_pc EXCEPT ![t] = "returned"]
            /\ UNCHANGED x_lock
       ELSE /\ x_pc' = [x_pc EXCEPT ![t] = "spawning"]
            /\ x_lock' = t
    /\ UNCHANGED <<x_server, x_poisoned, x_children, x_elapsed,
                   dispatcherVars>>

\* start_x_server: spawn /usr/bin/X, record the child, start the clock
StartSpawn(t) ==
    /\ x_pc[t] = "spawning"
    /\ \E ok \in BOOLEAN :
         IF ok
         THEN /\ x_server' = "Some"
              /\ x_children' = spawn(x_children)
              /\ x_elapsed' = 0
              /\ x_pc' = [x_pc EXCEPT ![t] = "polling"]
              /\ UNCHANGED <<x_lock, x_poisoned>>
         ELSE /\ x_pc' = [x_pc EXCEPT ![t] = "panicked"]
              /\ x_poisoned' = TRUE
              /\ x_lock' = NoThread
              /\ UNCHANGED <<x_server, x_children, x_elapsed>>
    /\ UNCHANGED dispatcherVars

\* start_x_server: one turn of the readiness loop
Poll(t) ==
    /\ x_pc[t] = "polling"
    /\ LET ok == connect(x_children)
       IN  IF poll_done(ok)
           THEN /\ x_children' = [x_children EXCEPT !.connected = @ \/ ok]
                /\ x_pc' = [x_pc EXCEPT ![t] = "returned"]
                /\ x_lock' = NoThread
                /\ UNCHANGED <<x_poisoned, x_elapsed>>
           ELSE IF timed_out(x_elapsed)
           THEN /\ x_pc' = [x_pc EXCEPT ![t] = "panicked"]
                /\ x_poisoned' = TRUE
                /\ x_lock' = NoThread
                /\ UNCHANGED <<x_children, x_elapsed>>
           ELSE /\ \E d \in SleepMs : x_elapsed' = x_elapsed + d
                /\ UNCHANGED <<x_pc, x_lock, x_poisoned, x_children>>
    /\ UNCHANGED <<x_server, dispatcherVars>>

\* the display server starts to accept connections
ServerReady ==
    /\ x_children.spawned > x_children.killed
    /\ ~x_children.reachable
    /\ x_children' = [x_children EXCEPT !.reachable = TRUE]
    /\ UNCHANGED <<x_server, x_pc, x_lock, x_poisoned, x_elapsed,
                   dispatcherVars>>

\* stop_x_server
StopRun(t) ==
    /\ x_pc[t] = "stop_lock"
    /\ lock_free(x_lock)
    /\ IF x_poisoned
       THEN /\ x_pc' = [x_pc EXCEPT ![t] = "panicked"]
            /\ UNCHANGED <<x_server, x_children>>
       ELSE /\ x_server' = stop_x_server(x_server)
            /\ x_children' = IF x_server = "Some" THEN kill(x_children)
                                                  ELSE x_children
            /\ x_pc' = [x_pc EXCEPT ![t] = "idle"]
    /\ UNCHANGED <<x_lock, x_poisoned, x_elapsed, dispatcherVars>>

NextX ==
    \/ \E t \in XThreads : CallStart(t)
    \/ \E t \in XThreads : CallStop(t)
    \/ \E t \in XThreads : StartCheck(t)
    \/ \E t \in XThreads : StartSpawn(t)
    \/ \E t \in XThreads : Poll(t)
    \/ \E t \in XThreads : StopRun(t)
    \/ ServerReady

SpecX == InitX /\ [][NextX]_vars

\* a thread in the readiness loop keeps running
FairSpecX == SpecX /\ \A t \in XThreads : WF_vars(Poll(t))

\* display-server processes spawned and not killed
Live == x_children.spawned - x_children.killed

C17_ReadyBeforeReturn ==
    [][\A t \in XThreads :
         (x_pc[t] \in {"start_lock", "polling"} /\ x_pc'[t] = "returned")
            => (x_server' = "Some" /\ x_children'.connected)]_vars

\* two starts have returned on one spawn: one polled, the other found the
\* handle recorded
C17_Witness ==
    /\ \A t \in XThreads : x_pc[t] = "returned"
    /\ x_children.spawned = 1
    /\ x_children.connected

\* C18: the readiness loop ends; it ends in the timeout panic only once
\* 5000 ms have elapsed, it returns only on a reachable display server, and
\* two connection attempts are at least 150 ms apart.
C18_PollEndsAtTimeout ==
    /\ [][\A t \in XThreads :
            /\ (x_pc[t] = "polling" /\ x_pc'[t] = "panicked")
                 => (x_elapsed >= X_SERVER_TIMEOUT /\ ~x_children.reachable)
            /\ (x_pc[t] = "polling" /\ x_pc'[t] = "returned")
                 => x_children.reachable
            /\ (x_pc[t] = "polling" /\ x_elapsed' # x_elapsed)
                 => x_elapsed' >= x_elapsed + PollIntervalMs]_vars
    /\ \A t \in XThreads : (x_pc[t] = "polling") ~> (x_pc[t] # "polling")

\* a start ended in the timeout panic
C18_Witness ==
    \E t \in XThreads :
        /\ x_pc[t] = "panicked"
        /\ x_server = "Some"
        /\ ~x_children.connected
        /\ x_elapsed > X_SERVER_TIMEOUT

-----------------------------------------------------------------------------
(* One authentication attempt from its dispatch on, with the native        *)
(* library's return codes drawn from PamEnvs: the worker thread runs       *)
(* Author::open_session against them, and the dispatcher and its timer     *)
(* thread go on from the LoginResult.  No further key is typed and the     *)
(* window is not closed.                                                   *)

\* the state Spec is in after the frame that saw Enter on "aaaa" at time 0
AttemptDispatched ==
    /\ stage = validating(0)
    /\ current_input = <<"a", "a", "a", "a">>
    /\ last_events = <<>>
    /\ now = 0
    /\ workers = <<[username |-> login_username,
                    password |-> <<"a", "a", "a", "a">>]>>
    /\ queue = <<>>
    /\ timers = <<>>
    /\ control_flow = "Poll"
    /\ x_server = "Some"
    /\ do_on_quit = <<>>
    /\ results = {}
    /\ attempts = 1

InitWorker ==
    /\ AttemptDispatched
    /\ pam \in PamEnvs
    /\ pam_calls = <<>>
    /\ pam_result = None
    /\ conv_in = None
    /\ conv_out = None
    /\ XStarted

\* the thread login_callback spawned, against the return codes in pam
WorkerOpenSession ==
    /\ LoopOpen
    /\ \E i \in 1..Len(workers) :
         LET r == open_session(pam)
         IN  /\ queue' = Append(queue,
                    LoginResultMsg(r.result.ok, workers[i].username,
                                   workers[i].password))
             /\ workers' = Remove(workers, i)
             /\ pam_calls' = r.calls
             /\ pam_result' = r.result
    /\ UNCHANGED <<appVars, now, timers, control_flow, x_server, do_on_quit,
                   results, attempts, pam, convVars, xVars>>

NextWorker ==
    \/ Tick
    \/ RedrawRequested
    \/ WorkerOpenSession
    \/ HandleLoginResult
    \/ TimerFire
    \/ HandleStartSession
    \/ StartSessionFailed
    \/ LoopDestroyed
    \/ SessionExit
    \/ ChildWait
    \/ LoopDestroyedReturn

SpecWorker == InitWorker /\ [][NextWorker]_vars

\* the worker has sent its one LoginResult, not yet consumed or consumed
C20_ExactlyOneResult ==
    Len(workers) + LoginResultsInFlight + Cardinality(results) = 1

\* the flag of the LoginResult says whether all four native steps succeeded
C20_FlagIffAllFour ==
    /\ \A i \in DOMAIN queue :
         queue[i].type = "LoginResult"
            => (queue[i].success <=> FirstFailure = 5)
    /\ results \subseteq {FirstFailure = 5}

\* C20: the worker sends exactly one LoginResult, its flag is true iff all
\* four native steps succeeded, and after a failed native step the process
\* keeps running.
C20_OneResultAndNoTermination ==
    /\ C20_ExactlyOneResult
    /\ C20_FlagIffAllFour
    /\ (pam_result # None /\ ~pam_result.ok) => control_flow = "Poll"

-----------------------------------------------------------------------------
(* main from its first statement.  control_flow is "Startup" until          *)
(* event_loop.run is entered; the main thread is thread 1 of XThreads, and  *)
(* its panic in start_x_server ends the process before the loop exists.     *)

MainThread == 1

InitMain ==
    /\ stage = inputing(0)
    /\ current_input = <<>>
    /\ last_events = <<>>
    /\ now = 0
    /\ workers = <<>>
    /\ queue = <<>>
    /\ timers = <<>>
    /\ control_flow = "Startup"
    /\ x_server = "None"
    /\ do_on_quit = <<>>
    /\ results = {}
    /\ attempts = 0
    /\ pam = [c \in PamCalls |-> "SUCCESS"]
    /\ pam_calls = <<>>
    /\ pam_result = None
    /\ conv_in = None
    /\ conv_out = None
    /\ XNotStarted

\* main: process_starts::start_x_server()
MainStartXServer ==
    /\ control_flow = "Startup"
    /\ \/ x_pc[MainThread] = "idle" /\ CallStart(MainThread)
       \/ StartCheck(MainThread)
       \/ StartSpawn(MainThread)
       \/ Poll(MainThread)

\* main goes on from start_x_server to build the App and enter
\* event_loop.run; no readiness poll is in progress any more
MainEnterLoop ==
    /\ control_flow = "Startup"
    /\ x_pc[MainThread] = "returned"
    /\ control_flow' = "Poll"
    /\ x_pc' = [x_pc EXCEPT ![MainThread] = "idle"]
    /\ x_elapsed' = 0
    /\ UNCHANGED <<appVars, now, workers, queue, timers, x_server,
                   do_on_quit, results, attempts, pam, pam_calls,
                   pam_result, convVars, x_lock, x_poisoned, x_children>>

NextMain ==
    \/ MainStartXServer
    \/ ServerReady
    \/ MainEnterLoop
    \/ Next

SpecMain == InitMain /\ [][NextMain]_vars

\* a step in which the StartSession handler runs start_session
RunsStartSession ==
    /\ queue # <<>>
    /\ Head(queue).type = "StartSession"
    /\ queue' = Tail(queue)

\* C21: start_session runs, and a session child is recorded, only while the
\* slot holds the display server that start_x_server confirmed reachable and
\* that no stop_x_server has killed.
C21_SessionUnderDisplayServer ==
    [][(RunsStartSession \/ Len(do_on_quit') > Len(do_on_quit))
          => /\ x_server = "Some"
             /\ x_children.connected
             /\ x_children.reachable
             /\ x_children.killed = 0]_vars

\* a session child is recorded and the display server has since been
\* stopped
C21_Witness ==
    /\ do_on_quit # <<>>
    /\ x_children.spawned = 1
    /\ x_children.killed = 1
    /\ x_server = "None"

\* a step in which the dispatcher consumes a LoginResult and calls
\* App::login_result
CallsLoginResult ==
    /\ queue # <<>>
    /\ Head(queue).type = "LoginResult"
    /\ queue' = Tail(queue)

\* C22: whenever the dispatcher calls login_result the machine is in
\* Validating with finished = false, so the call never panics.
C22_LoginResultInFreshValidating ==
    [][CallsLoginResult
          => /\ stage.tag = "Validating"
             /\ ~stage.finished
             /\ control_flow' # "Panicked"]_vars

\* a step that renders a frame: only App::frame empties last_events or
\* spawns a worker
RendersFrame ==
    \/ last_events # <<>> /\ last_events' = <<>>
    \/ Len(workers') > Len(workers)
    \/ last_events = <<>> /\ last_events' = <<>> /\ stage' # stage
          /\ queue' = queue

\* a frame that starts in Validating does what update alone does: the
\* buffer is kept or cleared, no attempt is dispatched, and on failure the
\* long flash is armed
C23_ValidatingFrameIgnoresEvents ==
    [][(RendersFrame /\ stage.tag = "Validating")
          => /\ current_input' \in {current_input, <<>>}
             /\ workers' = workers
             /\ stage'.tag = "Inputing"
                  => /\ current_input' = <<>>
                     /\ stage'.ball_red_flash_duration = LongFlashMs]_vars

\* a frame that dispatches an attempt leaves in the buffer what it dispatched
C23_BufferKeptAfterEnter ==
    [][Len(workers') > Len(workers)
          => current_input' = workers'[Len(workers) + 1].password]_vars

\* C23: events buffered while the machine is Validating, the frame that
\* leaves Validating included, change neither the credential buffer nor the
\* flash and dispatch nothing; events after an accepted Enter in the same
\* frame do not change the buffer.
C23_InputIgnoredWhileValidating ==
    /\ C23_ValidatingFrameIgnoresEvents
    /\ C23_BufferKeptAfterEnter

-----------------------------------------------------------------------------
\* Under ControlFlow::Poll every turn of the loop ends in MainEventsCleared,
\* which requests a redraw, and the monotonic clock advances.
FairSpecWorker ==
    SpecWorker /\ WF_vars(RedrawRequested) /\ WF_vars(Tick)

\* C24: once the LoginResult is delivered, the machine leaves Validating
\* for as long as frames are rendered, and it leaves to LoggingIn on success
\* and to Inputing on failure.
C24_ValidatingEnds ==
    /\ (stage.tag = "Validating" /\ stage.finished)
          ~> (stage.tag # "Validating" \/ control_flow # "Poll")
    /\ [][(stage.tag = "Validating" /\ stage'.tag # "Validating")
             => /\ stage.finished
                /\ stage'.tag = IF stage.succeed THEN "LoggingIn"
                                                 ELSE "Inputing"]_vars

\* a frame has taken the machine from Validating to LoggingIn and the loop
\* is still running
C24_Witness ==
    /\ stage.tag = "LoggingIn"
    /\ results = {TRUE}
    /\ control_flow = "Poll"

=============================================================================
